---- MODULE Spec2Model ----
(***************************************************************************)
(* A model of the LinkedIn job-application helper:                         *)
(*   - LinkedInBotFacade / LinkedInBotState  (src/src/linkedIn_bot_facade.py)*)
(*   - LinkedInEvolvedAPI                    (src/src/linkedin-api.py)     *)
(*   - the resume-to-YAML tool               (src/resume_yaml_generator.py)*)
(* Each part has its own specification; the variables of the other parts   *)
(* stay unchanged under it.                                                 *)
(*                                                                         *)
(* Text is modelled as a sequence of pieces.  A piece is either a single   *)
(* character ("_", " ", "'", "{", ...) or a run of characters that none of *)
(* the string operations of the program looks into.                        *)
(***************************************************************************)
EXTENDS Integers, Sequences, FiniteSets, TLC

VARIABLES
    \* ---- LinkedInBotFacade ----
    state,          \* LinkedInBotState: the six flags, by attribute name
    facade,         \* the facade's own attributes (email, password, ...)
    login,          \* login_component: the secrets it was given
    gpt,            \* gpt_answerer_component: what the facade set on it
    apply,          \* apply_component: what the facade set on it
    fcall,          \* the last facade operation: name, exception, component calls
    fhist,          \* history: which facade operations have ever succeeded
    \* ---- LinkedInEvolvedAPI ----
    already_applied_jobs,   \* the class-level list, shared by all instances
    cpc,            \* "idle", or "search" while search_jobs is in its page loop
    ccall,          \* the current or last client call: operation, arguments, outcome
    srch,           \* the locals of search_jobs: limit, offset, count, results,
                    \* the requests made so far and the last page received
    \* ---- search_jobs: the query string ----
    qin,            \* the filter arguments of a search_jobs call
    qout,           \* <<>>, or <<query_string>> once it is built
    \* ---- resume_yaml_generator.main ----
    renv,           \* what main finds: files, arguments, the model's answer
    rtool           \* main's position, locals, output file, printed lines, events

facadeVars == <<state, facade, login, gpt, apply, fcall, fhist>>

clientVars == <<already_applied_jobs, cpc, ccall, srch>>

queryVars == <<qin, qout>>

resumeVars == <<renv, rtool>>

vars == <<facadeVars, clientVars, queryVars, resumeVars>>

notFacadeVars == <<clientVars, queryVars, resumeVars>>
notClientVars == <<facadeVars, queryVars, resumeVars>>
notQueryVars == <<facadeVars, clientVars, resumeVars>>
notResumeVars == <<facadeVars, clientVars, queryVars>>

(***************************************************************************)
(* Text helpers                                                            *)
(***************************************************************************)
None == "None"

\* Python truthiness of the values the facade is given: None and the empty
\* value ("" or {}) are falsy.
Truthy(v) == v \notin {None, ""}

\* str.upper / str.lower on one piece; the pieces used as attribute names
\* are single lower-case letters and "_".
Upper(c) ==
    CASE c = "a" -> "A" [] c = "b" -> "B" [] c = "c" -> "C" [] c = "d" -> "D"
      [] c = "e" -> "E" [] c = "f" -> "F" [] c = "g" -> "G" [] c = "i" -> "I"
      [] c = "j" -> "J" [] c = "l" -> "L" [] c = "m" -> "M" [] c = "n" -> "N"
      [] c = "o" -> "O" [] c = "p" -> "P" [] c = "r" -> "R" [] c = "s" -> "S"
      [] c = "t" -> "T" [] c = "w" -> "W"
      [] OTHER -> c

Lower(c) ==
    CASE c = "A" -> "a" [] c = "B" -> "b" [] c = "C" -> "c" [] c = "D" -> "d"
      [] c = "E" -> "e" [] c = "F" -> "f" [] c = "G" -> "g" [] c = "I" -> "i"
      [] c = "J" -> "j" [] c = "L" -> "l" [] c = "M" -> "m" [] c = "N" -> "n"
      [] c = "O" -> "o" [] c = "P" -> "p" [] c = "R" -> "r" [] c = "S" -> "s"
      [] c = "T" -> "t" [] c = "W" -> "w"
      [] OTHER -> c

\* s.replace(old, new) for a single-piece old and any text new.
RECURSIVE ReplaceRange(_, _, _, _, _)
ReplaceRange(s, lo, hi, old, new) ==
    IF lo > hi THEN <<>>
    ELSE IF lo = hi THEN (IF s[lo] = old THEN new ELSE <<s[lo]>>)
    ELSE LET mid == (lo + hi) \div 2
         IN  ReplaceRange(s, lo, mid, old, new) \o ReplaceRange(s, mid + 1, hi, old, new)

Replace(s, old, new) == ReplaceRange(s, 1, Len(s), old, new)

\* sep.join(list)
RECURSIVE Join(_, _)
Join(list, sep) ==
    IF list = <<>> THEN <<>>
    ELSE IF Len(list) = 1 THEN list[1]
    ELSE list[1] \o <<sep>> \o Join(Tail(list), sep)

\* sub in s
Contains(s, sub) ==
    \E i \in 1..(Len(s) - Len(sub) + 1) : SubSeq(s, i, i + Len(sub) - 1) = sub

\* s.replace(old, new) for a single-piece old.
ReplaceChar(s, old, new) ==
    [i \in 1..Len(s) |-> IF s[i] = old THEN new ELSE s[i]]

\* str.capitalize(): first character upper-cased, the rest lower-cased.
Capitalize(s) ==
    [i \in 1..Len(s) |-> IF i = 1 THEN Upper(s[i]) ELSE Lower(s[i])]

(***************************************************************************)
(* LinkedInBotState                                                        *)
(***************************************************************************)
StateKeys ==
    {"credentials_set", "api_key_set", "job_application_profile_set",
     "gpt_answerer_set", "parameters_set", "logged_in"}

\* The spelling of each attribute name, as validate_state formats it.
KeyChars(key) ==
    CASE key = "credentials_set" ->
           <<"c","r","e","d","e","n","t","i","a","l","s","_","s","e","t">>
      [] key = "api_key_set" ->
           <<"a","p","i","_","k","e","y","_","s","e","t">>
      [] key = "job_application_profile_set" ->
           <<"j","o","b","_","a","p","p","l","i","c","a","t","i","o","n","_",
             "p","r","o","f","i","l","e","_","s","e","t">>
      [] key = "gpt_answerer_set" ->
           <<"g","p","t","_","a","n","s","w","e","r","e","r","_","s","e","t">>
      [] key = "parameters_set" ->
           <<"p","a","r","a","m","e","t","e","r","s","_","s","e","t">>
      [] key = "logged_in" ->
           <<"l","o","g","g","e","d","_","i","n">>

\* LinkedInBotState.reset
StateReset == [k \in StateKeys |-> FALSE]

NoError == <<>>

\* A variant that leaves the underscores of the attribute name in place.
ValidateMessage_NoReplace(key) ==
    Capitalize(KeyChars(key)) \o <<" must be set before proceeding.">>

\* The message of the ValueError validate_state raises for one key.
ValidateMessage(key) ==
    Capitalize(ReplaceChar(KeyChars(key), "_", " "))
        \o <<" must be set before proceeding.">>

\* A variant that checks the first required key only.
ValidateState_FirstKeyOnly(st, required_keys) ==
    IF required_keys = <<>> THEN NoError
    ELSE IF ~st[Head(required_keys)] THEN ValidateMessage(Head(required_keys))
    ELSE NoError

\* LinkedInBotState.validate_state: the error raised for the first key of
\* required_keys whose flag is false, NoError when every flag is set.
RECURSIVE ValidateState(_, _)
ValidateState(st, required_keys) ==
    IF required_keys = <<>> THEN NoError
    ELSE IF ~st[Head(required_keys)] THEN ValidateMessage(Head(required_keys))
    ELSE ValidateState(st, Tail(required_keys))

\* A variant that rejects None only (value is None instead of not value).
ValidateNonEmpty_OnlyNone(value, name) ==
    IF value = None THEN <<name, " cannot be empty.">> ELSE NoError

\* LinkedInBotFacade._validate_non_empty
ValidateNonEmpty(value, name) ==
    IF ~Truthy(value) THEN <<name, " cannot be empty.">> ELSE NoError

\* LinkedInBotFacade._ensure_job_profile_and_resume_set
EnsureJobProfileAndResumeSet(st) ==
    IF ~st["job_application_profile_set"]
    THEN <<"Job application profile and resume must be set before proceeding.">>
    ELSE NoError

(***************************************************************************)
(* LinkedInBotFacade                                                       *)
(***************************************************************************)
\* Argument values the callers pass: None, an empty value, a non-empty value.
Values == {None, "", "v"}
Emails == {None, "", "user@example.com"}
Passwords == {None, "", "secret"}

\* LinkedInAuthenticator.__init__ may be given no driver.
Drivers == {None, "driver"}

FacadeCall(op, exc, calls) == [op |-> op, exc |-> exc, calls |-> calls]

\* LinkedInBotFacade.__init__ (and LinkedInAuthenticator.__init__)
FacadeInitWith(drivers) ==
    /\ state = StateReset
    /\ facade = [job_application_profile |-> None, resume |-> None,
                 email |-> None, password |-> None, parameters |-> None]
    /\ \E d \in drivers : login = [driver |-> d, email |-> "", password |-> ""]
    /\ gpt = [job_application_profile |-> None, resume |-> None]
    /\ apply = [gpt_answerer |-> None, resume_generator_manager |-> None,
                parameters |-> None]
    /\ fcall = FacadeCall("init", NoError, <<>>)
    /\ fhist = [secrets_ok |-> FALSE, login_ok |-> FALSE]

\* The first error among checks made in order.
FirstError(e1, e2) == IF e1 # NoError THEN e1 ELSE e2

set_job_application_profile_and_resume(job_application_profile, resume) ==
    LET err == FirstError(
                 ValidateNonEmpty(job_application_profile, "Job application profile"),
                 ValidateNonEmpty(resume, "Resume"))
    IN  /\ fcall' = FacadeCall("set_job_application_profile_and_resume", err, <<>>)
        /\ IF err # NoError
           THEN UNCHANGED <<state, facade>>
           ELSE /\ facade' = [facade EXCEPT
                                !.job_application_profile = job_application_profile,
                                !.resume = resume]
                /\ state' = [state EXCEPT !["job_application_profile_set"] = TRUE]
        /\ UNCHANGED <<login, gpt, apply, fhist>>
        /\ UNCHANGED notFacadeVars

set_secrets(email, password) ==
    LET err == FirstError(ValidateNonEmpty(email, "Email"),
                          ValidateNonEmpty(password, "Password"))
    IN  /\ fcall' = FacadeCall("set_secrets", err, <<>>)
        /\ IF err # NoError
           THEN UNCHANGED <<state, facade, fhist>>
           ELSE /\ facade' = [facade EXCEPT !.email = email, !.password = password]
                /\ state' = [state EXCEPT !["credentials_set"] = TRUE]
                /\ fhist' = [fhist EXCEPT
                               !.secrets_ok = @ \/ (Truthy(email) /\ Truthy(password))]
        /\ UNCHANGED <<login, gpt, apply>>
        /\ UNCHANGED notFacadeVars

set_gpt_answerer_and_resume_generator(resume_generator_manager) ==
    LET err == EnsureJobProfileAndResumeSet(state)
    IN  /\ UNCHANGED notFacadeVars
        /\ IF err # NoError
           THEN /\ fcall' = FacadeCall("set_gpt_answerer_and_resume_generator", err, <<>>)
                /\ UNCHANGED <<state, facade, login, gpt, apply, fhist>>
           ELSE /\ gpt' = [job_application_profile |-> facade.job_application_profile,
                           resume |-> facade.resume]
                /\ apply' = [apply EXCEPT
                               !.gpt_answerer = "gpt_answerer_component",
                               !.resume_generator_manager = resume_generator_manager]
                /\ state' = [state EXCEPT !["gpt_answerer_set"] = TRUE]
                /\ fcall' = FacadeCall("set_gpt_answerer_and_resume_generator", NoError,
                               <<"gpt.set_job_application_profile", "gpt.set_resume",
                                 "apply.set_gpt_answerer",
                                 "apply.set_resume_generator_manager">>)
                /\ UNCHANGED <<facade, login, fhist>>

set_parameters(parameters) ==
    LET err == ValidateNonEmpty(parameters, "Parameters")
    IN  /\ UNCHANGED notFacadeVars
        /\ IF err # NoError
           THEN /\ fcall' = FacadeCall("set_parameters", err, <<>>)
                /\ UNCHANGED <<state, facade, login, gpt, apply, fhist>>
           ELSE /\ facade' = [facade EXCEPT !.parameters = parameters]
                /\ apply' = [apply EXCEPT !.parameters = parameters]
                /\ state' = [state EXCEPT !["parameters_set"] = TRUE]
                /\ fcall' = FacadeCall("set_parameters", NoError, <<"apply.set_parameters">>)
                /\ UNCHANGED <<login, gpt, fhist>>

\* LinkedInAuthenticator.start: raises when no driver was given; with a
\* driver, the browser calls it makes (driver.get, ...) may raise or not.
DriverMissing == <<"Driver must be initialized before starting the login process.">>
BrowserError == <<"WebDriverException">>

LoginStartOutcomes(lg) ==
    IF lg.driver = None THEN {DriverMissing} ELSE {NoError, BrowserError}

\* A variant that sets logged_in before the login component is started.
start_login_FlagFirst(outcome) ==
    LET err == ValidateState(state, <<"credentials_set">>)
    IN  /\ UNCHANGED notFacadeVars
        /\ IF err # NoError
           THEN /\ fcall' = FacadeCall("start_login", err, <<>>)
                /\ UNCHANGED <<state, facade, login, gpt, apply, fhist>>
           ELSE /\ login' = [login EXCEPT !.email = facade.email,
                                          !.password = facade.password]
                /\ outcome \in LoginStartOutcomes(login)
                /\ fcall' = FacadeCall("start_login", outcome,
                                       <<"login.set_secrets", "login.start">>)
                /\ state' = [state EXCEPT !["logged_in"] = TRUE]
                /\ fhist' = [fhist EXCEPT !.login_ok = @ \/ outcome = NoError]
                /\ UNCHANGED <<facade, gpt, apply>>

start_login(outcome) ==
    LET err == ValidateState(state, <<"credentials_set">>)
    IN  /\ UNCHANGED notFacadeVars
        /\ IF err # NoError
           THEN /\ fcall' = FacadeCall("start_login", err, <<>>)
                /\ UNCHANGED <<state, facade, login, gpt, apply, fhist>>
           ELSE /\ login' = [login EXCEPT !.email = facade.email,
                                          !.password = facade.password]
                /\ outcome \in LoginStartOutcomes(login)
                /\ fcall' = FacadeCall("start_login", outcome,
                                       <<"login.set_secrets", "login.start">>)
                /\ IF outcome # NoError
                   THEN UNCHANGED <<state, fhist>>
                   ELSE /\ state' = [state EXCEPT !["logged_in"] = TRUE]
                        /\ fhist' = [fhist EXCEPT !.login_ok = TRUE]
                /\ UNCHANGED <<facade, gpt, apply>>

StartApplyKeys ==
    <<"logged_in", "job_application_profile_set", "gpt_answerer_set", "parameters_set">>

start_apply ==
    LET err == ValidateState(state, StartApplyKeys)
    IN  /\ fcall' = FacadeCall("start_apply", err,
                        IF err # NoError THEN <<>> ELSE <<"apply.start_applying">>)
        /\ UNCHANGED <<state, facade, login, gpt, apply, fhist>>
        /\ UNCHANGED notFacadeVars

FacadeNext ==
    \/ \E p \in Values, r \in Values : set_job_application_profile_and_resume(p, r)
    \/ \E e \in Emails, p \in Passwords : set_secrets(e, p)
    \/ \E m \in Values : set_gpt_answerer_and_resume_generator(m)
    \/ \E p \in Values : set_parameters(p)
    \/ \E o \in {NoError, BrowserError, DriverMissing} : start_login(o)
    \/ start_apply

(***************************************************************************)
(* LinkedInEvolvedAPI.search_jobs: the page loop                           *)
(***************************************************************************)
\* Linkedin._MAX_SEARCH_COUNT and Linkedin._MAX_REPEATED_REQUESTS of the
\* linkedin_api package (49 and 200 there), scaled down.
MAX_SEARCH_COUNT == 2
MAX_REPEATED_REQUESTS == 3

MaxLimit == 7       \* the largest limit a caller passes
MaxOffset == 1      \* the largest offset a caller passes
MaxPageLen == 2     \* the most entries the service puts in "included"

Instances == {"api1", "api2"}

JobPostingType == "com.linkedin.voyager.dash.jobs.JobPosting"
OtherType == "com.linkedin.voyager.dash.organization.Company"

\* The kinds of entry the service returns: a job posting, an entity of
\* another type.
EntryKinds == {"job", "other"}

\* The service's entities are numbered; every fourth one comes without a
\* tracking reference.
HasTrackingUrn(n) == n % 4 # 3

\* The decimal digits of a natural number, one piece per digit.
Digit(d) ==
    CASE d = 0 -> "0" [] d = 1 -> "1" [] d = 2 -> "2" [] d = 3 -> "3"
      [] d = 4 -> "4" [] d = 5 -> "5" [] d = 6 -> "6" [] d = 7 -> "7"
      [] d = 8 -> "8" [] d = 9 -> "9"

RECURSIVE Decimal(_)
Decimal(n) ==
    IF n < 10 THEN <<Digit(n)>> ELSE Decimal(n \div 10) \o <<Digit(n % 10)>>

\* The n-th entity of the service's listing, of the given kind, as it comes
\* in "included": no job_id yet.
Entry(kind, n) ==
    [type |-> IF kind = "other" THEN OtherType ELSE JobPostingType,
     trackingUrn |-> IF ~HasTrackingUrn(n) THEN <<>>
                     ELSE <<"urn", ":", "li", ":", "fs_jobPosting", ":">> \o Decimal(n),
     job_id |-> <<>>]

\* s.split(":")[-1]: the pieces after the last ":".
RECURSIVE LastSegment(_)
LastSegment(s) ==
    IF s = <<>> THEN <<>>
    ELSE IF s[Len(s)] = ":" THEN <<>>
    ELSE LastSegment(SubSeq(s, 1, Len(s) - 1)) \o <<s[Len(s)]>>

\* The body of the loop over elements: job_id is attached to every entry
\* that has a tracking reference.
AttachJobId(e) ==
    IF e.trackingUrn # <<>>
    THEN [e EXCEPT !.job_id = LastSegment(e.trackingUrn)]
    ELSE e

\* A variant that keeps the entries of every type.
NewData_NoFilter(elements) ==
    [i \in 1..Len(elements) |-> AttachJobId(elements[i])]

\* A variant that puts each job-typed entry in front of the earlier ones.
RECURSIVE NewData_Reversed(_)
NewData_Reversed(elements) ==
    IF elements = <<>> THEN <<>>
    ELSE LET e == AttachJobId(Head(elements))
         IN  NewData_Reversed(Tail(elements))
                 \o (IF e.type = JobPostingType THEN <<e>> ELSE <<>>)

\* new_data: the job-typed entries of a page, in order.
RECURSIVE NewData(_)
NewData(elements) ==
    IF elements = <<>> THEN <<>>
    ELSE LET e == AttachJobId(Head(elements))
         IN  (IF e.type = JobPostingType THEN <<e>> ELSE <<>>)
                 \o NewData(Tail(elements))

\* The pages the service may answer to a request: any sequence of at most
\* MaxPageLen entry kinds; the entities are numbered from the request's start.
PageKinds == UNION {[1..n -> EntryKinds] : n \in 0..MaxPageLen}

PageOf(kinds, start) == [i \in 1..Len(kinds) |-> Entry(kinds[i], start + i)]

\* The limit argument: <<>> for None, <<n>> for the integer n.
Limits == {<<>>} \cup {<<n>> : n \in -2..MaxLimit}
Offsets == 0..MaxOffset

\* The outcome of a call: exc is the exception that left it (NoExc when it
\* returned), ret is <<>> while nothing was returned and <<v>> once v was.
NoExc == "none"
NoRet == <<>>
Ret(v) == <<v>>

ClientCall(op, args) ==
    [op |-> op, args |-> args, exc |-> NoExc, ret |-> NoRet, log |-> <<>>,
     parsed |-> FALSE]

\* The locals of search_jobs as the call starts.  They stay as the call
\* left them until the next call of any method.
SearchLocals(limit, offset) ==
    [limit |-> limit, offset |-> offset, count |-> MAX_SEARCH_COUNT,
     results |-> <<>>, requests |-> <<>>, page |-> <<>>]

NoSearch == SearchLocals(-1, 0)

ClientInit ==
    /\ already_applied_jobs = <<>>
    /\ cpc = "idle"
    /\ ccall = ClientCall("init", <<>>)
    /\ srch = NoSearch

\* search_jobs up to the loop: count starts at the maximum page size, a
\* limit of None becomes -1, results starts empty.
search_jobs_start(self, limit, offset) ==
    /\ cpc = "idle"
    /\ cpc' = "search"
    /\ ccall' = ClientCall("search_jobs", <<limit, offset>>)
    /\ srch' = SearchLocals(IF limit = <<>> THEN -1 ELSE limit[1], offset)
    /\ UNCHANGED already_applied_jobs
    /\ UNCHANGED notClientVars

\* A variant that never shrinks the page size.
NextCount_NoShrink(limit, count, results) == count

\* count as adjusted at the top of an iteration.
NextCount(limit, count, results) ==
    IF limit > -1 /\ limit - Len(results) < count
    THEN limit - Len(results)
    ELSE count

\* A variant without the test of the ratio of results to page size.
StopAfterPage_NoRatio(limit, count, results, elements) ==
    IF -1 < limit /\ limit <= Len(results) THEN "break"
    ELSE IF Len(elements) = 0 THEN "break"
    ELSE "continue"

\* The stop test after a page was added to results; "ZeroDivisionError"
\* when the division by count is reached with count = 0.
StopAfterPage(limit, count, results, elements) ==
    IF -1 < limit /\ limit <= Len(results) THEN "break"
    ELSE IF count = 0 THEN "ZeroDivisionError"
    ELSE IF Len(results) >= MAX_REPEATED_REQUESTS * count THEN "break"
    ELSE IF Len(elements) = 0 THEN "break"
    ELSE "continue"

\* A variant that swallows the transport error and goes round the loop again.
search_jobs_fetch_error_Retry ==
    /\ cpc = "search"
    /\ Len(srch.requests) < MAX_REPEATED_REQUESTS * MAX_SEARCH_COUNT
    /\ LET count == NextCount(srch.limit, srch.count, srch.results)
           req == [count |-> count, start |-> Len(srch.results) + srch.offset]
       IN  /\ srch' = [srch EXCEPT !.count = count,
                                   !.requests = Append(@, req)]
           /\ ccall' = [ccall EXCEPT !.exc = "TransportError"]
           /\ cpc' = "search"
    /\ UNCHANGED already_applied_jobs
    /\ UNCHANGED notClientVars

\* One iteration of the loop whose fetch fails: the transport error leaves
\* search_jobs.
search_jobs_fetch_error ==
    /\ cpc = "search"
    /\ LET count == NextCount(srch.limit, srch.count, srch.results)
           req == [count |-> count, start |-> Len(srch.results) + srch.offset]
       IN  /\ srch' = [srch EXCEPT !.count = count,
                                   !.requests = Append(@, req)]
           /\ ccall' = [ccall EXCEPT !.exc = "TransportError"]
           /\ cpc' = "idle"
    /\ UNCHANGED already_applied_jobs
    /\ UNCHANGED notClientVars

\* One iteration of the loop whose fetch answers with a page.
search_jobs_page(kinds) ==
    /\ cpc = "search"
    /\ LET count == NextCount(srch.limit, srch.count, srch.results)
           req == [count |-> count, start |-> Len(srch.results) + srch.offset]
           elements == PageOf(kinds, req.start)
           new_data == NewData(elements)
           results == srch.results \o new_data
           stop == IF new_data = <<>> THEN "break"
                   ELSE StopAfterPage(srch.limit, count, results, elements)
       IN  /\ srch' = [srch EXCEPT !.count = count,
                                   !.requests = Append(@, req),
                                   !.page = elements,
                                   !.results = results]
           /\ IF stop = "continue"
              THEN /\ cpc' = "search"
                   /\ ccall' = [ccall EXCEPT
                                  !.log = Append(@, <<"debug", "results grew to",
                                                      Len(results)>>)]
              ELSE /\ cpc' = "idle"
                   /\ ccall' = IF stop = "break"
                               THEN [ccall EXCEPT !.ret = Ret(results)]
                               ELSE [ccall EXCEPT !.exc = stop]
    /\ UNCHANGED already_applied_jobs
    /\ UNCHANGED notClientVars

(***************************************************************************)
(* LinkedInEvolvedAPI.get_fields_for_easy_apply                            *)
(***************************************************************************)
MaxApplied == 2     \* the most entries already_applied_jobs grows to
MaxClientLimit == 2 \* the largest limit of a search among the other calls

JobIds == {"4005350454", "4013860791"}

\* An optional key of a JSON object: <<>> when absent, <<v>> when present.
Absent == <<>>
Present(v) == <<v>>

\* Option entries of the two shapes the service uses, and a malformed one.
DirectOption(label) == [optionText |-> [text |-> label]]
WrappedOption(label) == [textSelectableOption |-> DirectOption(label)]
BadOption == [value |-> "x"]

Labels == <<"Yes", "No">>

\* The details under a form component's type key.
Details(shape, opts) ==
    [textSelectableOptions |->
        IF shape = "textSelectableOptions" THEN Present(opts) ELSE Absent,
     selectableOptions |->
        IF shape = "selectableOptions" THEN Present(opts) ELSE Absent]

\* A formComponent map: its (type key, details) pairs in key order.
FormComponent(type, details) == <<[key |-> type, details |-> details]>>
EmptyFormComponent == <<>>

\* The value under an element's "title" key.
TitleNull == [kind |-> "null", text |-> Absent]
TitleText(t) == [kind |-> "dict", text |-> Present(t)]
TitleNoText == [kind |-> "dict", text |-> Absent]

Item(formComponent, urn, title) ==
    [formComponent |-> formComponent, urn |-> urn, title |-> title]

Urn1 == "urn:li:fsd_formElement:(4013860791,9478711764,numeric)"
Urn2 == "urn:li:fsd_formElement:(4013860791,9478711765,multipleChoice)"

\* Elements of "included": well-formed ones of the three shapes, ones with a
\* part missing, and one that is no form element (no formComponent key).
Items ==
    LET PlainDetails == Details("none", <<>>)
        DirectDetails ==
            Details("textSelectableOptions",
                    [i \in 1..Len(Labels) |-> DirectOption(Labels[i])])
        WrappedDetails ==
            Details("selectableOptions",
                    [i \in 1..Len(Labels) |-> WrappedOption(Labels[i])])
        BadDetails == Details("textSelectableOptions", <<BadOption>>)
        TextComponent == FormComponent("singleLineTextFormComponent", PlainDetails)
        Years == TitleText("Years of experience?")
        Authorized == TitleText("Authorized to work?")
    IN  [text |-> Item(Present(TextComponent), Present(Urn1), Present(Years)),
         direct |->
            Item(Present(FormComponent("textEntityListFormComponent", DirectDetails)),
                 Present(Urn2), Present(Authorized)),
         wrapped |->
            Item(Present(FormComponent("textEntityListFormComponent", WrappedDetails)),
                 Present(Urn2), Present(Authorized)),
         null_title |-> Item(Present(TextComponent), Present(Urn1), Present(TitleNull)),
         no_title |-> Item(Present(TextComponent), Present(Urn1), Absent),
         no_text_title |->
            Item(Present(TextComponent), Present(Urn1), Present(TitleNoText)),
         no_urn |-> Item(Present(TextComponent), Absent, Present(Years)),
         no_type |-> Item(Present(EmptyFormComponent), Present(Urn1), Present(Years)),
         bad_option |->
            Item(Present(FormComponent("textEntityListFormComponent", BadDetails)),
                 Present(Urn2), Present(Authorized)),
         plain_entity |-> Item(Absent, Absent, Absent)]

\* Response bodies: text that is no JSON, JSON that is no object, a JSON
\* object with or without "included".
NotJson == [kind |-> "not_json", included |-> Absent]
JsonArray == [kind |-> "json_array", included |-> Absent]
JsonObject(included) == [kind |-> "json_object", included |-> included]

Bodies ==
    {NotJson, JsonArray, JsonObject(Absent), JsonObject(Present(<<>>))}
    \cup {JsonObject(Present(<<i>>)) :
             i \in {Items.text, Items.direct, Items.wrapped, Items.null_title, Items.no_title,
                    Items.no_text_title, Items.no_urn, Items.no_type, Items.bad_option}}
    \cup {JsonObject(Present(<<Items.plain_entity, Items.direct, Items.text>>)),
          JsonObject(Present(<<Items.text, Items.no_title>>))}

StatusCodes == {200, 409, 404, 500}

\* What self._fetch comes back with: a transport error, or a response.
TransportError == [kind |-> "error", status_code |-> 0, body |-> NotJson]
Response(status_code, body) ==
    [kind |-> "response", status_code |-> status_code, body |-> body]

\* The fetch is not reached when the session has no JSESSIONID cookie.
NotFetched == [kind |-> "not_fetched", status_code |-> 0, body |-> NotJson]

\* With a status other than 200 the body is an error page or a form.
FieldsFetches ==
    {TransportError}
    \cup {Response(200, b) : b \in Bodies}
    \cup {Response(c, b) : c \in StatusCodes \ {200},
                           b \in {NotJson, JsonObject(Present(<<Items.text>>))}}

\* The session's cookies (is there a JSESSIONID?) and the outcome of the fetch.
FieldsInputs ==
    {<<FALSE, NotFetched>>} \cup {<<TRUE, f>> : f \in FieldsFetches}

AlreadyAppliedLog ==
    "Failed to fetch fields for easy apply job because already applied to this job!"
FetchFailedLog == "Failed to fetch fields for easy apply job"
ParseFailedLog == "Failed to parse JSON response"

\* [opt["optionText"]["text"] for opt in ...]: the labels, or the KeyError of
\* the first option without the key.
RECURSIVE DirectLabels(_)
DirectLabels(opts) ==
    IF opts = <<>> THEN [exc |-> NoExc, labels |-> <<>>]
    ELSE IF "optionText" \notin DOMAIN Head(opts)
    THEN [exc |-> "KeyError", labels |-> <<>>]
    ELSE LET rest == DirectLabels(Tail(opts))
         IN  [exc |-> rest.exc,
              labels |-> <<Head(opts).optionText.text>> \o rest.labels]

\* [opt["textSelectableOption"]["optionText"]["text"] for opt in ...]
RECURSIVE WrappedLabels(_)
WrappedLabels(opts) ==
    IF opts = <<>> THEN [exc |-> NoExc, labels |-> <<>>]
    ELSE IF "textSelectableOption" \notin DOMAIN Head(opts)
    THEN [exc |-> "KeyError", labels |-> <<>>]
    ELSE LET rest == WrappedLabels(Tail(opts))
         IN  [exc |-> rest.exc,
              labels |-> <<Head(opts).textSelectableOption.optionText.text>>
                            \o rest.labels]

\* The body of the loop for one element that has a formComponent key: the
\* component_info appended, or the exception raised.
ComponentInfo(item) ==
    IF item.urn = Absent THEN [exc |-> "KeyError", info |-> <<>>]
    ELSE IF item.title = Absent THEN [exc |-> "KeyError", info |-> <<>>]
    ELSE IF item.title[1].kind = "dict" /\ item.title[1].text = Absent
    THEN [exc |-> "KeyError", info |-> <<>>]
    ELSE IF item.formComponent[1] = <<>> THEN [exc |-> "IndexError", info |-> <<>>]
    ELSE
      LET urn == item.urn[1]
          title == IF item.title[1].kind = "null" THEN urn
                   ELSE item.title[1].text[1]
          form_component_type == item.formComponent[1][1].key
          form_component_details == item.formComponent[1][1].details
          base == [title |-> title, urn |-> urn,
                   formComponentType |-> form_component_type]
          withOptions(labels) ==
              [title |-> title, urn |-> urn,
               formComponentType |-> form_component_type,
               selectableOptions |-> labels]
      IN  IF form_component_details.textSelectableOptions # Absent
          THEN LET r == DirectLabels(form_component_details.textSelectableOptions[1])
               IN  [exc |-> r.exc, info |-> <<withOptions(r.labels)>>]
          ELSE IF form_component_details.selectableOptions # Absent
          THEN LET r == WrappedLabels(form_component_details.selectableOptions[1])
               IN  [exc |-> r.exc, info |-> <<withOptions(r.labels)>>]
          ELSE [exc |-> NoExc, info |-> <<base>>]

\* The loop over data.get("included", []): the form_components collected,
\* or the first exception.
RECURSIVE FormComponents(_)
FormComponents(items) ==
    IF items = <<>> THEN [exc |-> NoExc, fields |-> <<>>]
    ELSE IF Head(items).formComponent = Absent THEN FormComponents(Tail(items))
    ELSE LET c == ComponentInfo(Head(items))
         IN  IF c.exc # NoExc THEN [exc |-> c.exc, fields |-> <<>>]
             ELSE LET rest == FormComponents(Tail(items))
                  IN  [exc |-> rest.exc,
                       fields |-> IF rest.exc # NoExc THEN <<>>
                                  ELSE c.info \o rest.fields]

Outcome(exc, ret, log, parsed) ==
    [exc |-> exc, ret |-> ret, log |-> log, parsed |-> parsed]

\* A variant that logs the same line for every status other than 200.
StatusOutcome_OneLog(status_code) ==
    Outcome(NoExc, Ret(<<>>), <<FetchFailedLog>>, FALSE)

\* The match on res.status_code: the log line and empty result of a status
\* other than 200.
StatusOutcome(status_code) ==
    IF status_code = 409 THEN Outcome(NoExc, Ret(<<>>), <<AlreadyAppliedLog>>, FALSE)
    ELSE Outcome(NoExc, Ret(<<>>), <<FetchFailedLog>>, FALSE)

\* res.json() and the loop over the included elements.
ParseOutcome(body) ==
    IF body.kind = "not_json" THEN Outcome(NoExc, Ret(<<>>), <<ParseFailedLog>>, TRUE)
    ELSE IF body.kind # "json_object" THEN Outcome("AttributeError", NoRet, <<>>, TRUE)
    ELSE LET r == FormComponents(IF body.included = Absent THEN <<>>
                                 ELSE body.included[1])
         IN  IF r.exc # NoExc THEN Outcome(r.exc, NoRet, <<>>, TRUE)
             ELSE Outcome(NoExc, Ret(r.fields), <<>>, TRUE)

\* get_fields_for_easy_apply as a function of the session's cookies and of
\* what the fetch comes back with.
GetFields(has_jsessionid, fetch) ==
    IF ~has_jsessionid THEN Outcome("KeyError", NoRet, <<>>, FALSE)
    ELSE IF fetch.kind = "error" THEN Outcome("TransportError", NoRet, <<>>, FALSE)
    ELSE IF fetch.status_code # 200 THEN StatusOutcome(fetch.status_code)
    ELSE ParseOutcome(fetch.body)

get_fields_for_easy_apply(self, job_id, has_jsessionid, fetch) ==
    /\ cpc = "idle"
    /\ LET out == GetFields(has_jsessionid, fetch)
       IN  ccall' = [op |-> "get_fields_for_easy_apply",
                     args |-> <<job_id, has_jsessionid, fetch>>,
                     exc |-> out.exc, ret |-> out.ret, log |-> out.log,
                     parsed |-> out.parsed]
    /\ srch' = NoSearch
    /\ UNCHANGED <<already_applied_jobs, cpc>>
    /\ UNCHANGED notClientVars

\* apply_to_job: the stub returns False.
apply_to_job(self, job_id, followCompany) ==
    /\ cpc = "idle"
    /\ ccall' = [ClientCall("apply_to_job", <<job_id, followCompany>>)
                    EXCEPT !.ret = Ret(FALSE)]
    /\ srch' = NoSearch
    /\ UNCHANGED <<already_applied_jobs, cpc>>
    /\ UNCHANGED notClientVars

\* A variant that rebinds the list instead of appending to it.
AppendJob_Rebind(jobs, job_id) == <<job_id>>

\* self.already_applied_jobs.append(job_id), on the list of the class.
AppendJob(jobs, job_id) == Append(jobs, job_id)

set_job_as_applied(self, job_id) ==
    /\ cpc = "idle"
    /\ Len(already_applied_jobs) < MaxApplied
    /\ already_applied_jobs' = AppendJob(already_applied_jobs, job_id)
    /\ ccall' = ClientCall("set_job_as_applied", <<job_id>>)
    /\ srch' = NoSearch
    /\ UNCHANGED cpc
    /\ UNCHANGED notClientVars

ClientLimits == {<<n>> : n \in 0..MaxClientLimit}

\* search_jobs reads nothing an earlier call left behind (its locals are
\* set afresh by search_jobs_start), so one call per behaviour covers every
\* call.
SearchNext ==
    \/ \E self \in Instances, l \in Limits, o \in Offsets :
            ccall.op = "init" /\ search_jobs_start(self, l, o)
    \/ search_jobs_fetch_error
    \/ \E kinds \in PageKinds : search_jobs_page(kinds)

ClientNext ==
    \/ \E self \in Instances, l \in ClientLimits : search_jobs_start(self, l, 0)
    \/ search_jobs_fetch_error
    \/ \E kinds \in PageKinds : search_jobs_page(kinds)
    \/ \E self \in Instances, j \in JobIds, in \in FieldsInputs :
            get_fields_for_easy_apply(self, j, in[1], in[2])
    \/ \E self \in Instances, j \in JobIds, fc \in BOOLEAN : apply_to_job(self, j, fc)
    \/ \E self \in Instances, j \in JobIds : set_job_as_applied(self, j)

(***************************************************************************)
(* LinkedInEvolvedAPI.search_jobs: the query string                        *)
(***************************************************************************)
\* A dict value: a str, or a dict of str values (its items in insertion order).
Str(text) == [kind |-> "str", text |-> text, items |-> <<>>]
Dict(items) == [kind |-> "dict", text |-> <<>>, items |-> items]
KV(key, value) == [key |-> key, value |-> value]

\* repr of a str without quote characters.
ReprStr(text) == <<"'">> \o text \o <<"'">>

\* str(dict) of a dict of str values: {'k': 'v', 'k2': 'v2'}
RECURSIVE ReprItems(_)
ReprItems(items) ==
    IF items = <<>> THEN <<>>
    ELSE ReprStr(<<Head(items).key>>) \o <<":", " ">> \o ReprStr(Head(items).value.text)
            \o (IF Len(items) > 1 THEN <<",", " ">> ELSE <<>>)
            \o ReprItems(Tail(items))

ReprFlatDict(items) == <<"{">> \o ReprItems(items) \o <<"}">>

\* str(query): the values are strs, or one level of dict.
RECURSIVE ReprQueryItems(_)
ReprQueryItems(items) ==
    IF items = <<>> THEN <<>>
    ELSE LET v == Head(items).value
         IN  ReprStr(<<Head(items).key>>) \o <<":", " ">>
               \o (IF v.kind = "dict" THEN ReprFlatDict(v.items) ELSE ReprStr(v.text))
               \o (IF Len(items) > 1 THEN <<",", " ">> ELSE <<>>)
               \o ReprQueryItems(Tail(items))

StrOfQuery(query) == <<"{">> \o ReprQueryItems(query) \o <<"}">>

\* f"List({','.join(values)})"
ListOf(values) == <<"List", "(">> \o Join(values, ",") \o <<")">>

\* One optional entry of a dict: present when the filter is truthy.
Entry1(cond, key, text) == IF cond THEN <<KV(key, Str(text))>> ELSE <<>>

\* query["selectedFilters"] as search_jobs fills it.
SelectedFilters(f) ==
    Entry1(f.companies # <<>>, "company", ListOf(f.companies))
    \o Entry1(f.experience # <<>>, "experience", ListOf(f.experience))
    \o Entry1(f.job_type # <<>>, "jobType", ListOf(f.job_type))
    \o Entry1(f.job_title # <<>>, "title", ListOf(f.job_title))
    \o Entry1(f.industries # <<>>, "industry", ListOf(f.industries))
    \o Entry1(f.distance # 0, "distance", ListOf(<<Decimal(f.distance)>>))
    \o Entry1(f.remote # <<>>, "workplaceType", ListOf(f.remote))
    \o Entry1(f.easy_apply, "applyWithLinkedin", <<"List", "(", "true", ")">>)
    \o <<KV("timePostedRange", Str(<<"List", "(", "r">> \o Decimal(f.listed_at) \o <<")">>))>>

\* The query dict as search_jobs fills it.
QueryDict(f) ==
    <<KV("origin", Str(<<"JOB_SEARCH_PAGE_QUERY_EXPANSION">>))>>
    \o Entry1(f.keywords # <<>>, "keywords", <<"KEYWORD_PLACEHOLDER">>)
    \o Entry1(f.location_name # <<>>, "locationFallback", <<"LOCATION_PLACEHOLDER">>)
    \o <<KV("selectedFilters", Dict(SelectedFilters(f)))>>
    \o <<KV("spellCorrectionEnabled", Str(<<"true">>))>>

\* A variant that leaves the spaces of str(query) in place.
StripSpaces_Keep(s) == s

\* .replace(" ", "")
StripSpaces(s) == Replace(s, " ", <<>>)

\* The chain of replacements that makes query_string of str(query).
QueryString(f) ==
    LET s1 == StripSpaces(StrOfQuery(QueryDict(f)))
        s2 == Replace(s1, "'", <<>>)
        s3 == Replace(s2, "KEYWORD_PLACEHOLDER", f.keywords)
        s4 == Replace(s3, "LOCATION_PLACEHOLDER", f.location_name)
        s5 == Replace(s4, "{", <<"(">>)
    IN  Replace(s5, "}", <<")">>)

\* The filter arguments callers pass.  A text is a sequence of pieces; None
\* and the empty text or list are both <<>> (search_jobs tests them with
\* "if x:" and "x or ''"); a distance of None is 0.
Filters ==
    [keywords : {<<>>, <<"Frontend", " ", "Developer">>, <<"Python">>},
     location_name : {<<>>, <<"Italia">>, <<"Kyiv", " ", "City", ",", " ", "Ukraine">>},
     companies : {<<>>, <<<<"1441">>>>, <<<<"1441">>, <<"Acme", " ", "Corp">>>>},
     experience : {<<>>, <<<<"2">>, <<"3">>>>},
     job_type : {<<>>, <<<<"F">>, <<"C">>>>},
     job_title : {<<>>, <<<<"9">>>>},
     industries : {<<>>, <<<<"96">>, <<"4">>>>},
     remote : {<<>>, <<<<"2">>>>},
     distance : {0, 25},
     easy_apply : BOOLEAN,
     listed_at : {86400}]

NoFilters ==
    [keywords |-> <<>>, location_name |-> <<>>, companies |-> <<>>,
     experience |-> <<>>, job_type |-> <<>>, job_title |-> <<>>,
     industries |-> <<>>, remote |-> <<>>, distance |-> 0,
     easy_apply |-> TRUE, listed_at |-> 86400]

QueryInit == qin \in Filters /\ qout = <<>>
QueryRest == qin = NoFilters /\ qout = <<>>

\* search_jobs down to query_string.
build_query_string ==
    /\ qout = <<>>
    /\ qout' = <<QueryString(qin)>>
    /\ UNCHANGED qin
    /\ UNCHANGED notQueryVars

QueryNext == build_query_string

(***************************************************************************)
(* resume_yaml_generator.main                                              *)
(***************************************************************************)
OpenTag == "<resume_yaml>"
CloseTag == "</resume_yaml>"

\* YAML texts the model may produce, as single pieces: one that conforms to
\* the schema, one that is YAML but does not conform, one that is no YAML.
ConformingYaml == "personal_information: {name: Ada}"
NonConformingYaml == "personal_information: 42"
BrokenYaml == "personal_information: [unclosed"

IsSpace(piece) == piece \in {" ", "\n"}

\* str.strip()
RECURSIVE Strip(_)
Strip(text) ==
    IF text = <<>> THEN <<>>
    ELSE IF IsSpace(Head(text)) THEN Strip(Tail(text))
    ELSE IF IsSpace(text[Len(text)]) THEN Strip(SubSeq(text, 1, Len(text) - 1))
    ELSE text

Positions(text, piece) == {i \in 1..Len(text) : text[i] = piece}
Min(S) == CHOOSE x \in S : \A y \in S : x <= y

\* re.search(r"<resume_yaml>(.*?)</resume_yaml>", text, re.DOTALL): <<>> for
\* no match, else <<group(1)>>: from the first opening tag that a closing
\* tag follows, up to the first closing tag after it.
SearchTags(text) ==
    LET opens == {i \in Positions(text, OpenTag) :
                    \E j \in Positions(text, CloseTag) : j > i}
    IN  IF opens = {} THEN <<>>
        ELSE LET i == Min(opens)
                 j == Min({k \in Positions(text, CloseTag) : k > i})
             IN  <<SubSeq(text, i + 1, j - 1)>>

\* The answers of the chat completion: an API error, or the message content.
LlmError == <<"<error>">>
LlmAnswers ==
    {LlmError,
     <<OpenTag, "\n", ConformingYaml, "\n", CloseTag, "\n">>,
     <<"Here is the YAML:", "\n", OpenTag, NonConformingYaml, CloseTag>>,
     <<OpenTag, BrokenYaml, CloseTag>>,
     <<ConformingYaml>>}

\* generate_yaml_from_resume: the exception, or the text between the tags.
GenerateYaml(answer) ==
    IF answer = LlmError THEN [exc |-> "APIError", yaml |-> <<>>]
    ELSE LET match == SearchTags(Strip(answer))
         IN  IF match # <<>>
             THEN [exc |-> NoExc, yaml |-> Strip(match[1])]
             ELSE [exc |-> "YAML content not found in the expected format",
                   yaml |-> <<>>]

\* validate_yaml: yaml.safe_load raises for text that is no YAML; a
\* ValidationError is returned as a result.
ValidateYaml(yaml_content) ==
    IF yaml_content = <<BrokenYaml>>
    THEN [exc |-> "YAMLError", valid |-> FALSE]
    ELSE [exc |-> NoExc, valid |-> yaml_content = <<ConformingYaml>>]

\* args.input.lower().endswith(".pdf"), on a name given as stem and suffix.
LowerSuffix(suffix) == IF suffix = ".PDF" THEN ".pdf" ELSE suffix
IsPdf(name) == LowerSuffix(name[Len(name)]) = ".pdf"

InputNames == {<<"resume", ".pdf">>, <<"RESUME", ".PDF">>, <<"resume", ".txt">>}

ResumeEnvs ==
    [secrets_exists : BOOLEAN,      \* data_folder/secrets.yaml exists
     api_key : {"", "sk-key"},      \* its openai_api_key
     schema_ok : BOOLEAN,           \* assets/resume_schema.yaml loads
     input : InputNames,            \* --input
     input_ok : BOOLEAN,            \* the input file can be read
     answer : LlmAnswers,           \* the model's answer
     write_ok : BOOLEAN]            \* the output file can be written

QuietEnv ==
    [secrets_exists |-> FALSE, api_key |-> "", schema_ok |-> FALSE,
     input |-> <<"resume", ".txt">>, input_ok |-> FALSE, answer |-> LlmError,
     write_ok |-> FALSE]

ResumeStart ==
    [pc |-> "get_api_key", generated_yaml |-> <<>>, file |-> Absent,
     out |-> <<>>, events |-> <<>>]

ResumeInit == renv \in ResumeEnvs /\ rtool = ResumeStart
ResumeRest == renv = QuietEnv /\ rtool = ResumeStart

\* except Exception as e: print(f"An error occurred: {e}")
ResumeFails(e) ==
    [rtool EXCEPT !.pc = "done", !.out = Append(@, <<"An error occurred: ", e>>)]

resume_get_api_key ==
    /\ rtool.pc = "get_api_key"
    /\ rtool' = IF ~renv.secrets_exists
                THEN ResumeFails("Secrets file not found at data_folder/secrets.yaml")
                ELSE IF renv.api_key = ""
                THEN ResumeFails("OpenAI API key not found in secrets.yaml")
                ELSE [rtool EXCEPT !.pc = "load_schema"]
    /\ UNCHANGED renv
    /\ UNCHANGED notResumeVars

resume_load_schema ==
    /\ rtool.pc = "load_schema"
    /\ rtool' = IF ~renv.schema_ok THEN ResumeFails("FileNotFoundError")
                ELSE [rtool EXCEPT !.pc = "read_input"]
    /\ UNCHANGED renv
    /\ UNCHANGED notResumeVars

resume_read_input ==
    /\ rtool.pc = "read_input"
    /\ rtool' = IF ~renv.input_ok THEN ResumeFails("FileNotFoundError")
                ELSE IF IsPdf(renv.input)
                THEN [rtool EXCEPT
                        !.pc = "generate",
                        !.out = Append(@, <<"PDF resume converted to text successfully.">>)]
                ELSE [rtool EXCEPT !.pc = "generate"]
    /\ UNCHANGED renv
    /\ UNCHANGED notResumeVars

resume_generate ==
    /\ rtool.pc = "generate"
    /\ LET g == GenerateYaml(renv.answer)
       IN  rtool' = IF g.exc # NoExc THEN ResumeFails(g.exc)
                    ELSE [rtool EXCEPT !.pc = "save", !.generated_yaml = g.yaml]
    /\ UNCHANGED renv
    /\ UNCHANGED notResumeVars

\* save_yaml(generated_yaml, args.output) and the line printed after it.
resume_save ==
    /\ rtool.pc = "save"
    /\ rtool' = IF ~renv.write_ok THEN ResumeFails("PermissionError")
                ELSE [rtool EXCEPT
                        !.pc = "validate",
                        !.file = Present(rtool.generated_yaml),
                        !.events = Append(@, [kind |-> "write",
                                              content |-> rtool.generated_yaml]),
                        !.out = Append(@, <<"Resume YAML generated and saved to ",
                                            "data_folder/plain_text_resume.yaml">>)]
    /\ UNCHANGED renv
    /\ UNCHANGED notResumeVars

\* validate_yaml(generated_yaml, schema) and the lines printed after it.
resume_validate ==
    /\ rtool.pc = "validate"
    /\ LET v == ValidateYaml(rtool.generated_yaml)
           validated == Append(rtool.events, [kind |-> "validate",
                                              content |-> rtool.generated_yaml])
       IN  rtool' = IF v.exc # NoExc
                    THEN [ResumeFails(v.exc) EXCEPT !.events = validated]
                    ELSE [rtool EXCEPT
                            !.pc = "done",
                            !.events = validated,
                            !.out = @ \o (IF v.valid
                                   THEN <<<<"YAML is valid and conforms to the schema.">>>>
                                   ELSE <<<<"YAML is not valid. Errors:">>,
                                          <<"ValidationError">>>>)]
    /\ UNCHANGED renv
    /\ UNCHANGED notResumeVars

ResumeNext ==
    \/ resume_get_api_key
    \/ resume_load_schema
    \/ resume_read_input
    \/ resume_generate
    \/ resume_save
    \/ resume_validate

\* Under each specification the other parts rest in one initial state.
FacadeInit == FacadeInitWith(Drivers)
FacadeRest == FacadeInitWith({None})

Init == FacadeInit /\ ClientInit /\ QueryRest /\ ResumeRest

SpecFacade == Init /\ [][FacadeNext]_vars

InitClient == FacadeRest /\ ClientInit /\ QueryRest /\ ResumeRest

SpecClient == InitClient /\ [][ClientNext]_vars

SpecSearch == InitClient /\ [][SearchNext]_vars

InitQuery == FacadeRest /\ ClientInit /\ QueryInit /\ ResumeRest

SpecQuery == InitQuery /\ [][QueryNext]_vars

\* The service answers every request search_jobs makes: self._fetch blocks
\* until it returns a response or raises.
search_jobs_answer ==
    search_jobs_fetch_error \/ \E kinds \in PageKinds : search_jobs_page(kinds)

\* One call of search_jobs from the first result on (offset 0): the offset
\* only shifts the start parameter of the requests.
SearchLiveNext ==
    \/ \E l \in Limits : ccall.op = "init" /\ search_jobs_start("api1", l, 0)
    \/ search_jobs_fetch_error
    \/ \E kinds \in PageKinds : search_jobs_page(kinds)

SpecSearchLive ==
    InitClient /\ [][SearchLiveNext]_vars /\ WF_vars(search_jobs_answer)

InitResume == FacadeRest /\ ClientInit /\ QueryRest /\ ResumeInit

SpecResume == InitResume /\ [][ResumeNext]_vars

(***************************************************************************)
(* Properties of search_jobs                                               *)
(***************************************************************************)
SearchReturned ==
    ccall.op = "search_jobs" /\ cpc = "idle" /\ ccall.exc = NoExc

\* The records accumulated when the i-th request was made.
AccumulatedAt(i) == srch.requests[i].start - srch.offset

\* The service answered every request of the call with exactly as many
\* job-typed entries as the request's count.
FullService ==
    \A i \in 1..Len(srch.requests) :
        (IF i < Len(srch.requests) THEN AccumulatedAt(i + 1) ELSE Len(srch.results))
            - AccumulatedAt(i) = srch.requests[i].count

SearchCap == MAX_SEARCH_COUNT * MAX_REPEATED_REQUESTS

ExactlyLimit ==
    /\ ccall.ret = Ret(srch.results)
    /\ Len(srch.results) = srch.limit
    /\ \A i \in 1..Len(srch.requests) :
          srch.requests[i].count <= srch.limit - AccumulatedAt(i)
    /\ srch.requests # <<>>
    /\ srch.requests[Len(srch.requests)].count
          = srch.limit - AccumulatedAt(Len(srch.requests))

\* C3 as stated: for every limit L >= 0 and a service that fills every page,
\* exactly L records are returned, no request asks for more than the
\* remainder, and the final request asks for exactly the remainder.
C3_ExactlyLimitAnyLimit ==
    (SearchReturned /\ srch.limit >= 0 /\ FullService) => ExactlyLimit

\* C3 amended: the same, for limits up to the maximum page size times the
\* maximum number of repeated requests.
C3_ExactlyLimitUpToCap ==
    (SearchReturned /\ srch.limit >= 0 /\ srch.limit <= SearchCap /\ FullService)
        => ExactlyLimit

\* C3 witness: limit 5 with full pages of 2 was served by requests of
\* count 2, 2, 1 and returned 5 records.
C3_Witness ==
    /\ SearchReturned
    /\ srch.limit = 5
    /\ FullService
    /\ Len(srch.requests) = 3
    /\ srch.requests[1].count = 2
    /\ srch.requests[2].count = 2
    /\ srch.requests[3].count = 1
    /\ Len(srch.results) = 5

NoJobTyped(page) == \A i \in 1..Len(page) : page[i].type # JobPostingType

\* A step of the loop in which a page arrived.
PageArrives ==
    /\ cpc = "search"
    /\ Len(srch'.requests) = Len(srch.requests) + 1
    /\ ccall'.exc # "TransportError"

\* Once the call is over no request is added to it.
NoFurtherRequest ==
    cpc = "idle" => (srch'.requests = srch.requests \/ srch'.requests = <<>>)

\* C4: a page without any job-typed entry ends the pagination at once: the
\* call returns the records accumulated from the earlier pages and issues
\* no further request.
C4_EmptyPageEndsPagination ==
    [][/\ (PageArrives /\ NoJobTyped(srch'.page)) =>
            /\ cpc' = "idle"
            /\ ccall'.exc = NoExc
            /\ ccall'.ret = Ret(srch.results)
            /\ srch'.results = srch.results
       /\ NoFurtherRequest]_vars

\* C4 witness: a page holding only an entity of another type ended a search
\* without limit that had already accumulated records.
C4_Witness ==
    /\ SearchReturned
    /\ srch.limit = -1
    /\ srch.page # <<>>
    /\ NoJobTyped(srch.page)
    /\ Len(srch.results) = 3
    /\ ccall.ret = Ret(srch.results)

SearchFailed ==
    ccall.op = "search_jobs" /\ ccall.exc = "TransportError"

\* C10: a transport error of a page fetch leaves search_jobs as it is: the
\* call is over, nothing is returned, the failing request was made once and
\* no request follows it.
C10_TransportErrorSurfaces ==
    /\ [](SearchFailed =>
            /\ cpc = "idle"
            /\ ccall.ret = NoRet
            /\ \A i \in 1..(Len(srch.requests) - 1) :
                  srch.requests[i] # srch.requests[Len(srch.requests)])
    /\ [][SearchFailed =>
            (srch'.requests = srch.requests \/ srch'.requests = <<>>)]_vars

\* C10 witness: the third page fetch of a search failed after two pages had
\* brought records.
C10_Witness ==
    /\ SearchFailed
    /\ Len(srch.requests) = 3
    /\ Len(srch.results) >= 2
    /\ ccall.ret = NoRet

\* The job-typed entries of a page as the service sent them.
JobTyped(page) == SelectSeq(page, LAMBDA e : e.type = JobPostingType)

\* Records without the job_id the loop attaches.
AsSent(records) ==
    [i \in 1..Len(records) |->
        [type |-> records[i].type, trackingUrn |-> records[i].trackingUrn]]

\* C12: every page is requested at start = offset + the number of records
\* accumulated so far, and adds its job-typed entries, in their order, to
\* the end of the accumulated records; the call returns the accumulated
\* records; a first page without any job-typed entry gives the empty
\* sequence and no error.
C12_ResultsInArrivalOrder ==
    /\ [][PageArrives =>
            /\ srch'.requests[Len(srch'.requests)].start
                  = srch.offset + Len(srch.results)
            /\ AsSent(srch'.results)
                  = AsSent(srch.results) \o AsSent(JobTyped(srch'.page))
            /\ (srch.requests = <<>> /\ NoJobTyped(srch'.page)) =>
                  /\ cpc' = "idle"
                  /\ ccall'.exc = NoExc
                  /\ ccall'.ret = Ret(<<>>)]_vars
    /\ [](SearchReturned => ccall.ret = Ret(srch.results))

\* C12 witness: a search with limit 3 and offset 1 returned three records,
\* two from the first page and one from a second page that began with an
\* entity of another type.
C12_Witness ==
    /\ SearchReturned
    /\ srch.limit = 3
    /\ srch.offset = 1
    /\ Len(srch.requests) = 2
    /\ srch.requests[2].start = 3
    /\ Len(srch.page) = 2
    /\ srch.page[1].type = OtherType
    /\ Len(srch.results) = 3
    /\ ccall.ret = Ret(srch.results)

\* job_id is the part of urn after its last ":" (all of it without ":").
IsTrailingSegment(job_id, urn) ==
    /\ \A i \in 1..Len(job_id) : job_id[i] # ":"
    /\ Len(job_id) <= Len(urn)
    /\ SubSeq(urn, Len(urn) - Len(job_id) + 1, Len(urn)) = job_id
    /\ Len(job_id) < Len(urn) => urn[Len(urn) - Len(job_id)] = ":"

\* C13: every returned record has the job-posting type, and every returned
\* record carries a job identifier, equal to the trailing colon-separated
\* segment of its tracking reference.
C13_EveryRecordHasJobId ==
    SearchReturned =>
        \A i \in 1..Len(ccall.ret[1]) :
            LET r == ccall.ret[1][i]
            IN  /\ r.type = JobPostingType
                /\ r.job_id # <<>>
                /\ IsTrailingSegment(r.job_id, r.trackingUrn)

\* C15: search_jobs terminates.  Every page after which the loop goes on
\* has added a record and leaves fewer records than the page size times
\* the maximum number of repeated requests, so a call makes at most that
\* many requests at the full page size; and every call that has started
\* comes to its end.
C15_SearchTerminates ==
    /\ [][(PageArrives /\ cpc' = "search") =>
            /\ Len(srch'.results) > Len(srch.results)
            /\ Len(srch'.results) < MAX_REPEATED_REQUESTS * srch'.count]_vars
    /\ [](Len(srch.requests) <= MAX_REPEATED_REQUESTS * MAX_SEARCH_COUNT)
    /\ (cpc = "search") ~> (cpc = "idle")

\* C15 witness: a search with a negative limit other than -1 was stopped by
\* the ratio test after pages that each brought a single record.
C15_Witness ==
    /\ SearchReturned
    /\ srch.limit = -2
    /\ Len(srch.requests) = MAX_REPEATED_REQUESTS * MAX_SEARCH_COUNT
    /\ Len(srch.results) = MAX_REPEATED_REQUESTS * MAX_SEARCH_COUNT
    /\ ~NoJobTyped(srch.page)

(***************************************************************************)
(* Properties of the query string                                          *)
(***************************************************************************)
NoSpace(text) == \A i \in 1..Len(text) : text[i] # " "

ExampleFilters ==
    [NoFilters EXCEPT !.keywords = <<"Frontend", " ", "Developer">>,
                      !.location_name = <<"Italia">>,
                      !.easy_apply = TRUE]

C8_ValidatedBeforeWritten ==
    \A i \in 1..Len(rtool.events) :
        rtool.events[i].kind = "write" =>
            \E j \in 1..(i - 1) :
                /\ rtool.events[j].kind = "validate"
                /\ rtool.events[j].content = rtool.events[i].content

(***************************************************************************)
(* Properties of the client                                                *)
(***************************************************************************)
FieldsCalled == ccall.op = "get_fields_for_easy_apply"
FieldsCookie == ccall.args[2]
FieldsFetch == ccall.args[3]
FieldsResponded == FieldsCalled /\ FieldsFetch.kind = "response"

\* C5: status 200 goes on to parse the body; 409 returns an empty sequence
\* and logs the "already applied" line, which no other status logs; any other
\* status returns an empty sequence and logs the generic line; the body of a
\* status other than 200 is never parsed.
C5_StatusMapping ==
    FieldsResponded =>
        /\ FieldsFetch.status_code = 200 => ccall.parsed
        /\ FieldsFetch.status_code = 409 =>
              /\ ccall.exc = NoExc
              /\ ccall.ret = Ret(<<>>)
              /\ ccall.log = <<AlreadyAppliedLog>>
              /\ ~ccall.parsed
        /\ FieldsFetch.status_code \notin {200, 409} =>
              /\ ccall.exc = NoExc
              /\ ccall.ret = Ret(<<>>)
              /\ ccall.log = <<FetchFailedLog>>
              /\ AlreadyAppliedLog \notin {ccall.log[i] : i \in 1..Len(ccall.log)}
              /\ ~ccall.parsed

\* C5 witness: a 409 answer carrying a well-formed form was mapped to the
\* empty sequence.
C5_Witness ==
    /\ FieldsResponded
    /\ FieldsFetch.status_code = 409
    /\ FieldsFetch.body = JsonObject(Present(<<Items.text>>))
    /\ ccall.ret = Ret(<<>>)

FieldsFailureBody(body) ==
    \/ body.kind # "json_object"
    \/ /\ body.included # Absent
       /\ \E i \in 1..Len(body.included[1]) :
             LET item == body.included[1][i]
             IN  /\ item.formComponent # Absent
                 /\ \/ item.title = Absent
                    \/ item.urn = Absent
                    \/ item.formComponent[1] = <<>>

\* C6: get_fields_for_easy_apply never raises once the response has
\* arrived; a non-JSON body after status 200 returns an empty sequence; a
\* missing session cookie, a form element without title key or identifier,
\* a form-component map without type key and a body that is no JSON object
\* end in a returned sequence and a log line.
C6_FieldFailuresSwallowed ==
    FieldsCalled =>
        /\ FieldsResponded => (ccall.exc = NoExc /\ ccall.ret # NoRet)
        /\ (FieldsResponded /\ FieldsFetch.status_code = 200
              /\ FieldsFetch.body.kind = "not_json") => ccall.ret = Ret(<<>>)
        /\ ~FieldsCookie =>
              (ccall.exc = NoExc /\ ccall.ret # NoRet /\ ccall.log # <<>>)
        /\ (FieldsResponded /\ FieldsFetch.status_code = 200
              /\ FieldsFailureBody(FieldsFetch.body)) =>
              (ccall.exc = NoExc /\ ccall.ret # NoRet /\ ccall.log # <<>>)

\* The included elements that carry the form-component marker, in order.
FormElements(items) == SelectSeq(items, LAMBDA item : item.formComponent # Absent)

HasTitleText(item) == item.title # Absent /\ item.title[1].text # Absent

\* The element has an identifier, a type key and options of the shape its
\* details announce.
SoundApartFromTitle(item) ==
    /\ item.urn # Absent
    /\ item.formComponent[1] # <<>>
    /\ LET details == item.formComponent[1][1].details
       IN  /\ details.textSelectableOptions # Absent =>
                \A i \in 1..Len(details.textSelectableOptions[1]) :
                    "optionText" \in DOMAIN details.textSelectableOptions[1][i]
           /\ details.selectableOptions # Absent =>
                \A i \in 1..Len(details.selectableOptions[1]) :
                    "textSelectableOption" \in DOMAIN details.selectableOptions[1][i]

\* C14: for a 200 response whose body is a JSON object, the call returns
\* one field per included element that carries the form-component marker,
\* in the order of the response; the title of a field is the element's
\* title text when there is one and the element's identifier when there is
\* none (title absent or null).
C14_OneFieldPerFormElement ==
    (/\ FieldsResponded
     /\ FieldsFetch.status_code = 200
     /\ FieldsFetch.body.kind = "json_object"
     /\ FieldsFetch.body.included # Absent
     /\ \A i \in 1..Len(FieldsFetch.body.included[1]) :
           FieldsFetch.body.included[1][i].formComponent # Absent =>
               SoundApartFromTitle(FieldsFetch.body.included[1][i]))
    => /\ ccall.exc = NoExc
       /\ ccall.ret # NoRet
       /\ LET elements == FormElements(FieldsFetch.body.included[1])
              fields == ccall.ret[1]
          IN  /\ Len(fields) = Len(elements)
              /\ \A i \in 1..Len(elements) :
                    /\ fields[i].urn = elements[i].urn[1]
                    /\ fields[i].title =
                          IF HasTitleText(elements[i])
                          THEN elements[i].title[1].text[1]
                          ELSE elements[i].urn[1]

IsPrefix(s, t) == Len(s) <= Len(t) /\ SubSeq(t, 1, Len(s)) = s

\* C9: already_applied_jobs only ever grows at its end, and only in a
\* set_job_as_applied step, by the identifier given; search_jobs,
\* get_fields_for_easy_apply and apply_to_job leave it as it is.
C9_AppliedJobsAppendOnly ==
    [][/\ IsPrefix(already_applied_jobs, already_applied_jobs')
       /\ already_applied_jobs' # already_applied_jobs =>
             /\ ccall'.op = "set_job_as_applied"
             /\ already_applied_jobs'
                  = Append(already_applied_jobs, ccall'.args[1])
       /\ ccall'.op \in {"search_jobs", "get_fields_for_easy_apply", "apply_to_job"}
             => already_applied_jobs' = already_applied_jobs]_vars

\* C9 witness: two identifiers were recorded and a later field fetch ended
\* in the 409 "already applied" outcome.
C9_Witness ==
    /\ Len(already_applied_jobs) = 2
    /\ already_applied_jobs[1] # already_applied_jobs[2]
    /\ FieldsResponded
    /\ FieldsFetch.status_code = 409
    /\ ccall.log = <<AlreadyAppliedLog>>

(***************************************************************************)
(* Properties of the facade                                                *)
(***************************************************************************)
LoggedInMessage ==
    <<"L","o","g","g","e","d"," ","i","n"," must be set before proceeding.">>

\* C1: as long as start_login has never completed successfully, start_apply
\* raises the ValueError "Logged in must be set before proceeding.", whatever
\* the other flags are, and does not invoke apply_component.start_applying.
C1_StartApplyBeforeLogin ==
    (fcall.op = "start_apply" /\ ~fhist.login_ok) =>
        /\ fcall.exc = LoggedInMessage
        /\ fcall.calls = <<>>

\* C1 witness: start_apply was called before any successful login, with all
\* the other preconditions of start_apply met.
C1_Witness ==
    /\ fcall.op = "start_apply"
    /\ ~fhist.login_ok
    /\ state["job_application_profile_set"]
    /\ state["gpt_answerer_set"]
    /\ state["parameters_set"]

\* C2: while set_secrets has never succeeded with a non-empty email and a
\* non-empty password, start_login raises without calling the login
\* component and logged_in is false; logged_in implies credentials_set.
C2_CredentialsBeforeLogin ==
    /\ (fcall.op = "start_login" /\ ~fhist.secrets_ok) =>
           /\ fcall.exc # NoError
           /\ fcall.calls = <<>>
    /\ ~fhist.secrets_ok => ~state["logged_in"]
    /\ state["logged_in"] => state["credentials_set"]

\* C2 witness: start_login was called after set_secrets was only ever tried
\* with an empty password.
C2_Witness ==
    /\ fcall.op = "start_login"
    /\ ~fhist.secrets_ok
    /\ fcall.exc = <<"C","r","e","d","e","n","t","i","a","l","s"," ","s","e","t",
                     " must be set before proceeding.">>
    /\ state["job_application_profile_set"]

\* The messages validate_state raises for the other keys of start_apply.
ProfileSetMessage ==
    <<"J","o","b"," ","a","p","p","l","i","c","a","t","i","o","n"," ",
      "p","r","o","f","i","l","e"," ","s","e","t"," must be set before proceeding.">>
GptAnswererSetMessage ==
    <<"G","p","t"," ","a","n","s","w","e","r","e","r"," ","s","e","t",
      " must be set before proceeding.">>
ParametersSetMessage ==
    <<"P","a","r","a","m","e","t","e","r","s"," ","s","e","t",
      " must be set before proceeding.">>

StartApplyReady ==
    /\ state["logged_in"]
    /\ state["job_application_profile_set"]
    /\ state["gpt_answerer_set"]
    /\ state["parameters_set"]

\* C11: apply_component.start_applying is invoked only by a start_apply made
\* with logged_in, job_application_profile_set, gpt_answerer_set and
\* parameters_set all true; in every other state start_apply raises without
\* invoking the apply component, and its message names the first unmet flag
\* in that order.  (start_apply changes no flag, so the flags after the call
\* are those it was made with.)
C11_StartApplyingOnlyWhenReady ==
    /\ (\E i \in 1..Len(fcall.calls) : fcall.calls[i] = "apply.start_applying") =>
           /\ fcall.op = "start_apply"
           /\ StartApplyReady
    /\ fcall.op = "start_apply" =>
           IF StartApplyReady
           THEN fcall.exc = NoError /\ fcall.calls = <<"apply.start_applying">>
           ELSE /\ fcall.calls = <<>>
                /\ fcall.exc =
                      IF ~state["logged_in"] THEN LoggedInMessage
                      ELSE IF ~state["job_application_profile_set"]
                      THEN ProfileSetMessage
                      ELSE IF ~state["gpt_answerer_set"] THEN GptAnswererSetMessage
                      ELSE ParametersSetMessage

\* C11 witness: start_apply was called after a login, with the profile set
\* but neither the answerer nor the parameters: it raised naming the answerer.
C11_Witness ==
    /\ fcall.op = "start_apply"
    /\ state["logged_in"]
    /\ state["job_application_profile_set"]
    /\ ~state["gpt_answerer_set"]
    /\ ~state["parameters_set"]
    /\ fcall.exc = GptAnswererSetMessage

\* C16: a facade operation that raises leaves all six state flags as they
\* were, and no facade operation turns a flag from true back to false.
C16_RaisingLeavesFlags ==
    [][/\ fcall'.exc # NoError => state' = state
       /\ \A k \in StateKeys : state[k] => state'[k]]_vars

\* C16 witness: start_login raised inside the login component after the
\* credentials and the profile were set, and logged_in is still false.
C16_Witness ==
    /\ fcall.op = "start_login"
    /\ fcall.exc = BrowserError
    /\ fcall.calls = <<"login.set_secrets", "login.start">>
    /\ state["credentials_set"]
    /\ state["job_application_profile_set"]
    /\ ~state["logged_in"]

====
